---- MODULE Spec2Model ----
(***************************************************************************)
(* Churn-analysis pipeline of the e-commerce dashboard.                    *)
(*                                                                         *)
(*   utils/KPIs.py       calculate_churn_features, define_churn            *)
(*   churn_analysis.py   load_and_prepare_data, normalize_data,            *)
(*                       rebalance_data, main                              *)
(*                                                                         *)
(* Numbers are exact rationals <<n, d>> in lowest terms with d > 0; the    *)
(* pair <<0, 0>> is pandas' NaN.  Time is counted in half days.  A sample  *)
(* standard deviation is carried as its square (the sample variance):      *)
(* the square root is injective on the non-negative rationals, so two      *)
(* deviations are equal exactly when their squares are.                    *)
(***************************************************************************)
EXTENDS Integers, Sequences, FiniteSets, Bags

(***************************************************************************)
(* Bounds and input domains of the order table.                            *)
(***************************************************************************)
MaxRows == 3

\* Columns of the feature list the prediction tab is checked on.
MaxFeatures == 3
MaxPerClass == 10
MaxOnes == 1

Customers == {1, 2}
OrderIds == {1, 2}
Times == {0, 1, 2, 3}
CutoffDates == {2}
HalfDaysPerDay == 2
Statuses == {"delivered", "canceled"}

VARIABLES
    pc,                 \* position of the run
    df,                 \* the flat order table returned by load_data()
    cutoff_date,        \* pd.to_datetime(cutoff_date)
    features_df,        \* result of calculate_churn_features
    churn_df,           \* result of define_churn
    churn_analysis_df,  \* the dataset load_and_prepare_data returns
    dataset,            \* (X, y) of prepare_model_data, a bag of rows
    rebalance_method,   \* main's rebalance_method
    test_size,          \* main's test_size
    model_type,         \* main's model_type
    use_cv,             \* main's use_cv (0 stands for None)
    grid_search,        \* main's grid_search
    train,              \* (X_train, y_train) as train_test_split returned them
    test,               \* (X_test, y_test)
    scaler,             \* the StandardScaler of normalize_data
    train_scaled,       \* (X_train_scaled, y_train) of main
    test_scaled,        \* (X_test_scaled, y_test)
    model,              \* the classifier of train_model
    eval_metrics,       \* result of evaluate_model
    store,              \* the four files under models/
    local_files,        \* the files of the dashboard's working directory
    loaded,             \* what the dashboard's prediction tab has loaded
    input_df,           \* the input row of the prediction tab
    prediction,         \* what the prediction tab shows for it
    writers             \* per concurrent run, the steps its save has taken

dataVars == <<df, cutoff_date, features_df, churn_df, churn_analysis_df>>

paramVars == <<model_type, use_cv, grid_search>>

inferVars == <<local_files, loaded>>

predictVars == <<input_df, prediction>>

runVars == <<dataset, rebalance_method, test_size, train, test, scaler,
             train_scaled, test_scaled, model, eval_metrics, store,
             paramVars, inferVars, predictVars, writers>>

vars == <<pc, dataVars, runVars>>

(***************************************************************************)
(* Rational arithmetic with NaN.                                           *)
(***************************************************************************)
NaN == <<0, 0>>

IsNaN(x) == x[2] = 0

Abs(n) == IF n < 0 THEN -n ELSE n

RECURSIVE GCD(_, _)
GCD(a, b) == IF b = 0 THEN a ELSE GCD(b, a % b)

Norm(n, d) ==
    IF d = 0 THEN NaN
    ELSE LET g == GCD(Abs(n), Abs(d))
             s == IF d < 0 THEN -1 ELSE 1
         IN  <<(s * n) \div g, (s * d) \div g>>

Rat(n) == <<n, 1>>

RatAdd(x, y) == IF IsNaN(x) \/ IsNaN(y) THEN NaN
                ELSE Norm(x[1] * y[2] + y[1] * x[2], x[2] * y[2])

RatSub(x, y) == IF IsNaN(x) \/ IsNaN(y) THEN NaN
                ELSE Norm(x[1] * y[2] - y[1] * x[2], x[2] * y[2])

RatMul(x, y) == IF IsNaN(x) \/ IsNaN(y) THEN NaN
                ELSE Norm(x[1] * y[1], x[2] * y[2])

\* x / y; a zero divisor gives NaN (0/0) or an infinity that the model never
\* reaches, since every divisor below is a positive count.
RatDiv(x, y) == IF IsNaN(x) \/ IsNaN(y) THEN NaN
                ELSE Norm(x[1] * y[2], x[2] * y[1])

RatGt(x, y) == ~IsNaN(x) /\ ~IsNaN(y) /\ x[1] * y[2] > y[1] * x[2]

(***************************************************************************)
(* pandas reductions over one column (a sequence of cells).                *)
(***************************************************************************)
NotNull(s) == SelectSeq(s, LAMBDA v : ~IsNaN(v))

RECURSIVE RatSum(_)
RatSum(s) == IF s = <<>> THEN Rat(0) ELSE RatAdd(Head(s), RatSum(Tail(s)))

\* Series.sum(): NaN cells are skipped, the sum of no cell is 0.
ColSum(s) == RatSum(NotNull(s))

\* Series.mean(): NaN cells are skipped, the mean of no cell is NaN.
ColMean(s) ==
    LET v == NotNull(s)
    IN  IF v = <<>> THEN NaN ELSE RatDiv(RatSum(v), Rat(Len(v)))

\* Series.std() squared: sample variance (ddof = 1) of the non-NaN cells,
\* NaN when fewer than two cells are left.
ColVar(s) ==
    LET v  == NotNull(s)
        n  == Len(v)
        sq == [i \in 1..n |-> RatMul(v[i], v[i])]
    IN  IF n < 2 THEN NaN
        ELSE RatDiv(RatSub(RatMul(Rat(n), RatSum(sq)),
                           RatMul(RatSum(v), RatSum(v))),
                    Rat(n * (n - 1)))

\* Series.fillna(value): a NaN value leaves the NaN cells as they are.
FillNa(x, value) == IF IsNaN(x) THEN value ELSE x

Range(s) == {s[i] : i \in 1..Len(s)}

\* Ascending sequence of a finite set of integers (groupby sorts its keys).
RECURSIVE SortedSeq(_)
SortedSeq(S) ==
    IF S = {} THEN <<>>
    ELSE LET m == CHOOSE x \in S : \A y \in S : x <= y
         IN  <<m>> \o SortedSeq(S \ {m})

\* Unique without the de-duplication.
UniqueKeepsDuplicates(s) == s

\* Series.unique(): the distinct values in order of first appearance.
RECURSIVE Unique(_)
Unique(s) ==
    IF s = <<>> THEN <<>>
    ELSE LET r == Unique(SubSeq(s, 1, Len(s) - 1))
             x == s[Len(s)]
         IN  IF x \in Range(r) THEN r ELSE Append(r, x)

(***************************************************************************)
(* The flat order table (JuntandoTabelas.py): orders left-joined with      *)
(* their payments and reviews.  Every order contributes at least one row;  *)
(* the rows of an order repeat its customer, timestamp, status and review  *)
(* score and differ in the payment record.  An order without a payment     *)
(* record has one row whose payment cells are NaN.  The payment rows of an *)
(* order are listed by ascending value: every aggregate below is           *)
(* symmetric in the rows of one order.                                     *)
(***************************************************************************)
ReviewScores == {NaN, Rat(1), Rat(5)}

Payments == {[payment_value |-> Rat(1), payment_installments |-> Rat(1)],
             [payment_value |-> Rat(3), payment_installments |-> Rat(2)]}

NoPayment == [payment_value |-> NaN, payment_installments |-> NaN]

OrderAttrs == [customer_unique_id : Customers,
               order_purchase_timestamp : Times,
               order_status : Statuses,
               review_score : ReviewScores]

Ascending(s) ==
    \A i \in 1..(Len(s) - 1) : s[i].payment_value[1] <= s[i + 1].payment_value[1]

PaymentLists ==
    {<<NoPayment>>}
        \cup UNION {{s \in [1..k -> Payments] : Ascending(s)} : k \in 1..MaxRows}

OrderRow(o, a, p) ==
    [customer_unique_id |-> a.customer_unique_id,
     order_id |-> o,
     order_purchase_timestamp |-> a.order_purchase_timestamp,
     order_status |-> a.order_status,
     review_score |-> a.review_score,
     payment_value |-> p.payment_value,
     payment_installments |-> p.payment_installments]

RECURSIVE FlatTable(_, _, _)
FlatTable(n, attrs, pays) ==
    IF n = 0 THEN <<>>
    ELSE FlatTable(n - 1, attrs, pays)
         \o [i \in 1..Len(pays[n]) |-> OrderRow(n, attrs[n], pays[n][i])]

RECURSIVE TotalLen(_, _)
TotalLen(n, pays) == IF n = 0 THEN 0 ELSE Len(pays[n]) + TotalLen(n - 1, pays)

(***************************************************************************)
(* DataFrame helpers.                                                      *)
(***************************************************************************)
Column(rows, col) == [i \in 1..Len(rows) |-> rows[i][col]]

Group(rows, c) == SelectSeq(rows, LAMBDA r : r.customer_unique_id = c)

NUnique(s) == Cardinality(Range(s))

MaxOf(S) == CHOOSE x \in S : \A y \in S : y <= x

(***************************************************************************)
(* utils/KPIs.py: calculate_churn_features(df, cutoff_date)                *)
(***************************************************************************)
\* A missing customer id (NaN) and a missing timestamp (NaT) as pandas
\* holds them.  Every comparison with NaT is False; groupby leaves out the
\* rows whose key is NaN; unique() keeps NaN as a value.
NullId == 0

NaT == -1

BeforeCutoff(t, cutoff) ==
    SelectSeq(t, LAMBDA r : /\ r.order_purchase_timestamp # NaT
                            /\ r.order_purchase_timestamp <= cutoff)

\* FeatureRow with a started day counted as a day of recency.
FeatureRow_RecencyRoundedUp(before, c, cutoff) ==
    LET g              == Group(before, c)
        total_spent    == ColSum(Column(g, "payment_value"))
        num_orders     == Rat(NUnique(Column(g, "order_id")))
        canceled       == SelectSeq(g, LAMBDA r : r.order_status = "canceled")
        last_purchase  == MaxOf(Range(Column(g, "order_purchase_timestamp")))
    IN  [customer_unique_id |-> c,
         total_spent |-> total_spent,
         num_orders |-> num_orders,
         avg_order_value |-> RatDiv(total_spent, num_orders),
         std_order_value |-> ColVar(Column(g, "payment_value")),
         avg_installments |-> ColMean(Column(g, "payment_installments")),
         avg_review |-> ColMean(Column(g, "review_score")),
         cancel_rate |-> IF canceled = <<>> THEN NaN
                         ELSE RatDiv(Rat(Len(canceled)), num_orders),
         recency |-> Rat((cutoff - last_purchase + HalfDaysPerDay - 1)
                         \div HalfDaysPerDay)]

\* groupby('customer_unique_id')[...]: one entry per customer of the
\* filtered table.  cancel_rate is the row count of the canceled rows over
\* the distinct-order count; a customer with no canceled row is absent from
\* the numerator and gets NaN from the index alignment.
FeatureRow(before, c, cutoff) ==
    LET g              == Group(before, c)
        total_spent    == ColSum(Column(g, "payment_value"))
        num_orders     == Rat(NUnique(Column(g, "order_id")))
        canceled       == SelectSeq(g, LAMBDA r : r.order_status = "canceled")
        last_purchase  == MaxOf(Range(Column(g, "order_purchase_timestamp")))
    IN  [customer_unique_id |-> c,
         total_spent |-> total_spent,
         num_orders |-> num_orders,
         avg_order_value |-> RatDiv(total_spent, num_orders),
         std_order_value |-> ColVar(Column(g, "payment_value")),
         avg_installments |-> ColMean(Column(g, "payment_installments")),
         avg_review |-> ColMean(Column(g, "review_score")),
         cancel_rate |-> IF canceled = <<>> THEN NaN
                         ELSE RatDiv(Rat(Len(canceled)), num_orders),
         recency |-> Rat((cutoff - last_purchase) \div HalfDaysPerDay)]

\* calculate_churn_features with the aggregates taken over the unfiltered
\* table.
calculate_churn_features_Unfiltered(t, cutoff) ==
    LET df_before_cutoff == BeforeCutoff(t, cutoff)
        keys == SortedSeq(Range(Column(df_before_cutoff, "customer_unique_id"))
                              \ {NullId})
    IN  [i \in 1..Len(keys) |-> FeatureRow(t, keys[i], cutoff)]

calculate_churn_features(t, cutoff) ==
    LET df_before_cutoff == BeforeCutoff(t, cutoff)
        keys == SortedSeq(Range(Column(df_before_cutoff, "customer_unique_id"))
                              \ {NullId})
    IN  [i \in 1..Len(keys) |-> FeatureRow(df_before_cutoff, keys[i], cutoff)]

(***************************************************************************)
(* utils/KPIs.py: define_churn(df, cutoff_date)                            *)
(***************************************************************************)
AfterCutoff(t, cutoff) ==
    SelectSeq(t, LAMBDA r : /\ r.order_purchase_timestamp # NaT
                            /\ r.order_purchase_timestamp > cutoff)

\* define_churn with the "after" comparison made non-strict.
define_churn_NonStrictAfter(t, cutoff) ==
    LET active_customers ==
            Unique(Column(BeforeCutoff(t, cutoff), "customer_unique_id"))
        customers_after_cutoff ==
            Unique(Column(SelectSeq(t,
                LAMBDA r : /\ r.order_purchase_timestamp # NaT
                           /\ r.order_purchase_timestamp >= cutoff),
                "customer_unique_id"))
    IN  [i \in 1..Len(active_customers) |->
            [customer_unique_id |-> active_customers[i],
             churn |-> IF /\ active_customers[i] # NullId
                          /\ active_customers[i]
                                \in Range(customers_after_cutoff)
                       THEN 0 ELSE 1]]

define_churn(t, cutoff) ==
    LET active_customers ==
            Unique(Column(BeforeCutoff(t, cutoff), "customer_unique_id"))
        customers_after_cutoff ==
            Unique(Column(AfterCutoff(t, cutoff), "customer_unique_id"))
    IN  [i \in 1..Len(active_customers) |->
            [customer_unique_id |-> active_customers[i],
             churn |-> IF /\ active_customers[i] # NullId
                          /\ active_customers[i]
                                \in Range(customers_after_cutoff)
                       THEN 0 ELSE 1]]

(***************************************************************************)
(* churn_analysis.py: load_and_prepare_data                                *)
(***************************************************************************)
\* pd.merge(features_df, churn_df, on='customer_unique_id'): inner join, one
\* output row per matching pair of rows.
RECURSIVE Merge(_, _)
Merge(left, right) ==
    IF left = <<>> THEN <<>>
    ELSE LET l == Head(left)
             m == SelectSeq(right,
                     LAMBDA r : r.customer_unique_id = l.customer_unique_id)
         IN  [j \in 1..Len(m) |->
                [customer_unique_id |-> l.customer_unique_id,
                 total_spent |-> l.total_spent,
                 num_orders |-> l.num_orders,
                 avg_order_value |-> l.avg_order_value,
                 std_order_value |-> l.std_order_value,
                 avg_installments |-> l.avg_installments,
                 avg_review |-> l.avg_review,
                 cancel_rate |-> l.cancel_rate,
                 recency |-> l.recency,
                 churn |-> Rat(m[j].churn)]]
             \o Merge(Tail(left), right)

\* The numeric columns in DataFrame order (select_dtypes float64/int64).
NumericCols == <<"total_spent", "num_orders", "avg_order_value",
                 "std_order_value", "avg_installments", "avg_review",
                 "cancel_rate", "recency", "churn">>

FillColumn(d, col, value) ==
    [i \in 1..Len(d) |-> [d[i] EXCEPT ![col] = FillNa(d[i][col], value)]]

HasNa(d, col) == \E i \in 1..Len(d) : IsNaN(d[i][col])

MissingCount(d) ==
    Cardinality({<<i, k>> \in (1..Len(d)) \X (1..Len(NumericCols)) :
                    IsNaN(d[i][NumericCols[k]])})

\* Lines 94-113: every numeric column that still holds a NaN is filled with
\* its own mean.
RECURSIVE FillRemaining(_, _)
FillRemaining(d, k) ==
    IF k > Len(NumericCols) THEN d
    ELSE LET col == NumericCols[k]
         IN  FillRemaining(IF HasNa(d, col)
                           THEN FillColumn(d, col, ColMean(Column(d, col)))
                           ELSE d, k + 1)

\* FillMissing with avg_review filled with the first non-null value of the
\* column instead of the column mean.
FillMissing_ReviewFirst(d) ==
    LET d1 == FillColumn(d, "std_order_value", Rat(0))
        known == NotNull(Column(d1, "avg_review"))
        d2 == FillColumn(d1, "avg_review",
                         IF known = <<>> THEN NaN ELSE Head(known))
        d3 == FillColumn(d2, "cancel_rate", Rat(0))
    IN  IF MissingCount(d3) > 0 THEN FillRemaining(d3, 1) ELSE d3

\* Lines 83-113: the fill rules in the order of the code.
FillMissing(d) ==
    LET d1 == FillColumn(d, "std_order_value", Rat(0))
        d2 == FillColumn(d1, "avg_review", ColMean(Column(d1, "avg_review")))
        d3 == FillColumn(d2, "cancel_rate", Rat(0))
    IN  IF MissingCount(d3) > 0 THEN FillRemaining(d3, 1) ELSE d3

\* Lines 115-122: the final check prints an alert or a success message and
\* returns the dataset either way.
FinalCheck(d) == d

(***************************************************************************)
(* churn_analysis.py, main: the run after load_and_prepare_data returned.  *)
(*                                                                         *)
(* (X, y) is a bag of rows [x, churn]: x is the cell of one feature column *)
(* (the scaler and the samplers treat the columns alike), churn the label. *)
(* The order of the rows plays no part in the steps below.                 *)
(***************************************************************************)
Row(x, y) == [x |-> x, churn |-> y]

MkBag(f) == [e \in {d \in DOMAIN f : f[d] > 0} |-> f[e]]

OfClass(b, c) == [e \in {d \in DOMAIN b : d.churn = c} |-> b[e]]

ClassCount(b, c) == BagCardinality(OfClass(b, c))

Classes(b) == {e.churn : e \in DOMAIN b}

\* The bag of the images f[e] of the rows e of b.
MapRows(b, f) ==
    [r \in {f[e] : e \in DOMAIN b} |->
        BagCardinality([e \in {d \in DOMAIN b : f[d] = r} |-> b[e]])]

\* All bags of k rows drawn from the set S.
BagsOfSize(S, k) ==
    {b \in SubBag([e \in S |-> k]) : BagCardinality(b) = k}

RECURSIVE WeightedSum(_, _, _)
WeightedSum(b, S, squared) ==
    IF S = {} THEN Rat(0)
    ELSE LET e == CHOOSE d \in S : TRUE
             v == IF squared THEN RatMul(e.x, e.x) ELSE e.x
         IN  RatAdd(RatMul(Rat(b[e]), v), WeightedSum(b, S \ {e}, squared))

BagMean(b) == RatDiv(WeightedSum(b, DOMAIN b, FALSE), Rat(BagCardinality(b)))

\* Population variance (ddof = 0), as StandardScaler computes it.
BagVar(b) ==
    RatSub(RatDiv(WeightedSum(b, DOMAIN b, TRUE), Rat(BagCardinality(b))),
           RatMul(BagMean(b), BagMean(b)))

\* The dataset load_and_prepare_data can return: a column is free of NaN or,
\* when no row had a value to take the mean of, NaN in every row.
Dataset(n0, k0, n1, k1, allNaN) ==
    IF allNaN
    THEN MkBag((Row(NaN, 0) :> n0) @@ (Row(NaN, 1) :> n1))
    ELSE MkBag((Row(Rat(0), 0) :> n0 - k0) @@ (Row(Rat(1), 0) :> k0) @@
               (Row(Rat(0), 1) :> n1 - k1) @@ (Row(Rat(1), 1) :> k1))

(***************************************************************************)
(* analyze_data_distribution: churn_count[1] is a lookup by label, a       *)
(* KeyError when no row is labelled 1.                                     *)
(***************************************************************************)
AnalyzeFails(data) == ClassCount(data, 1) = 0

(***************************************************************************)
(* main, lines 603-605: train_test_split(X, y, test_size, stratify = y)    *)
(***************************************************************************)
Ceil(x) == -((-x[1]) \div x[2])

NTest(data, ts) == Ceil(RatMul(ts, Rat(BagCardinality(data))))

NTrain(data, ts) == BagCardinality(data) - NTest(data, ts)

SplitFails(data, ts) ==
    \/ ~(RatGt(ts, Rat(0)) /\ RatGt(Rat(1), ts))
    \/ NTrain(data, ts) <= 0
    \/ \E c \in Classes(data) : ClassCount(data, c) < 2
    \/ NTrain(data, ts) < Cardinality(Classes(data))
    \/ NTest(data, ts) < Cardinality(Classes(data))

\* Class counts of the training part: the proportional share rounded down,
\* a row left over going to the class with the larger remainder (either
\* class on a tie).
TrainAllocations(data, ts) ==
    LET n      == BagCardinality(data)
        share(c) == ClassCount(data, c) * NTrain(data, ts)
        need   == NTrain(data, ts) - (share(0) \div n) - (share(1) \div n)
        first  == {c \in {0, 1} : \A d \in {0, 1} : share(c) % n >= share(d) % n}
    IN  IF need = 0
        THEN {[c \in {0, 1} |-> share(c) \div n]}
        ELSE {[c \in {0, 1} |-> (share(c) \div n) + (IF c = w THEN 1 ELSE 0)] :
                w \in first}

TrainTestSplits(data, ts) ==
    {[train |-> t, test |-> data (-) t] :
        t \in {u \in SubBag(data) :
                 \E a \in TrainAllocations(data, ts) :
                    \A c \in {0, 1} : ClassCount(u, c) = a[c]}}

(***************************************************************************)
(* normalize_data(X_train, X_test)                                         *)
(***************************************************************************)
\* Lines 208-228: NaN cells become 0.
FillNaZero(b) ==
    IF \E e \in DOMAIN b : IsNaN(e.x)
    THEN MapRows(b, [e \in DOMAIN b |-> Row(FillNa(e.x, Rat(0)), e.churn)])
    ELSE b

UnfittedScaler == [fits |-> 0, mean_ |-> NaN, var_ |-> NaN]

\* StandardScaler.fit: the mean and the population variance of the column.
Fit(sc, b) ==
    [fits |-> sc.fits + 1, mean_ |-> BagMean(b), var_ |-> BagVar(b)]

\* StandardScaler.transform of one cell: z = (x - mean_) / sqrt(var_), with
\* a zero variance replaced by 1.  z is carried as sign(z) * z * z.
Standardize(x, sc) ==
    LET d   == RatSub(x, sc.mean_)
        den == IF sc.var_ = Rat(0) THEN Rat(1) ELSE sc.var_
        sq  == RatDiv(RatMul(d, d), den)
    IN  IF d[1] < 0 THEN RatSub(Rat(0), sq) ELSE sq

Transform(sc, b) ==
    MapRows(b, [e \in DOMAIN b |-> Row(Standardize(e.x, sc), e.churn)])

\* normalize_data with the scaler fit on the training and the test rows.
normalize_data_FitOnAll(X_train, X_test) ==
    LET a  == FillNaZero(X_train)
        b  == FillNaZero(X_test)
        sc == Fit(UnfittedScaler, a (+) b)
    IN  [X_train_scaled |-> Transform(sc, a),
         X_test_scaled |-> Transform(sc, b),
         scaler |-> sc]

\* normalize_data that drops the test rows with a NaN instead of filling
\* them.
normalize_data_DropsNaNTestRows(X_train, X_test) ==
    LET a  == FillNaZero(X_train)
        b  == [e \in {d \in DOMAIN X_test : ~IsNaN(d.x)} |-> X_test[e]]
        sc == Fit(UnfittedScaler, a)
    IN  [X_train_scaled |-> Transform(sc, a),
         X_test_scaled |-> Transform(sc, b),
         scaler |-> sc]

\* Lines 231-235: fit_transform on the training rows, transform on the test
\* rows.
normalize_data(X_train, X_test) ==
    LET a  == FillNaZero(X_train)
        b  == FillNaZero(X_test)
        sc == Fit(UnfittedScaler, a)
    IN  [X_train_scaled |-> Transform(sc, a),
         X_test_scaled |-> Transform(sc, b),
         scaler |-> sc]

(***************************************************************************)
(* rebalance_data(X_train, y_train, method)                                *)
(***************************************************************************)
K_NEIGHBORS == 5

Minority(b) == IF ClassCount(b, 0) < ClassCount(b, 1) THEN 0 ELSE 1

Majority(b) == 1 - Minority(b)

\* SmoteFails without the check of the neighbours.
SmoteFails_NeighboursUnchecked(b) == Cardinality(Classes(b)) < 2

\* SMOTE(random_state=42).fit_resample raises when y has one class, and when
\* the class to grow has fewer than k + 1 rows to take k neighbours from.
SmoteFails(b) ==
    \/ Cardinality(Classes(b)) < 2
    \/ /\ ClassCount(b, 0) # ClassCount(b, 1)
       /\ ClassCount(b, Minority(b)) < K_NEIGHBORS + 1

\* SmoteResample that stops one synthetic row short.
SmoteResample_OneShort(b) ==
    LET need == ClassCount(b, Majority(b)) - ClassCount(b, Minority(b)) - 1
        at   == DOMAIN OfClass(b, Minority(b))
    IN  IF need <= 0 THEN {b} ELSE {b (+) syn : syn \in BagsOfSize(at, need)}

\* The minority class is grown to the size of the majority class: each new
\* row lies between a minority row and one of its minority neighbours; the
\* model places it on a minority row.
SmoteResample(b) ==
    LET need == ClassCount(b, Majority(b)) - ClassCount(b, Minority(b))
        at   == DOMAIN OfClass(b, Minority(b))
    IN  IF need = 0 THEN {b} ELSE {b (+) syn : syn \in BagsOfSize(at, need)}

\* RandomUnderSampler(random_state=42).fit_resample raises when y has one
\* class.
UnderSampleFails(b) == Cardinality(Classes(b)) < 2

\* The majority class is cut, without replacement, to the size of the
\* minority class.
UnderSample(b) ==
    LET keep == ClassCount(b, Minority(b))
    IN  {OfClass(b, Minority(b)) (+) m :
            m \in {u \in SubBag(OfClass(b, Majority(b))) :
                     BagCardinality(u) = keep}}

RebalanceFails(b, method) ==
    \/ method = "smote" /\ SmoteFails(FillNaZero(b))
    \/ method = "undersample" /\ UnderSampleFails(FillNaZero(b))

\* Lines 257-281; main (line 611) skips the call for method 'none'.
rebalance_data(b, method) ==
    IF method = "smote" THEN SmoteResample(FillNaZero(b))
    ELSE IF method = "undersample" THEN UnderSample(FillNaZero(b))
    ELSE {FillNaZero(b)}

(***************************************************************************)
(* train_model, evaluate_model, save_model_and_results                     *)
(***************************************************************************)
\* Raise for a main that catches the exception of a step and goes on.
Raise_Swallowed(failed, next) == next

\* main, lines 593-624: an exception of a step leaves main; nothing catches
\* it.
Raise(failed, next) == IF failed THEN "error" ELSE next

\* The model families of lines 309-347.
ModelTypes == {"random_forest", "xgboost", "logistic_regression"}

NoModel ==
    [fitted |-> FALSE, fitted_on |-> EmptyBag, family |-> "none",
     config |-> "configured", fits |-> 0]

\* Lines 309-347: the unfitted classifier of the family.
NewModel(mt) == [NoModel EXCEPT !.family = mt]

\* model.fit(X, y): the model holds what its last fit saw.
FitModel(m, b) ==
    [m EXCEPT !.fitted = TRUE, !.fitted_on = b, !.fits = @ + 1]

\* Whether fit returns or raises.  LogisticRegression needs two classes;
\* XGBClassifier needs the labels to be 0..k-1, and whether it fits labels
\* that are all 0 depends on the installed version; a random forest fits
\* any labels.
FitOutcomes(mt, b) ==
    IF mt = "logistic_regression"
    THEN IF Cardinality(Classes(b)) < 2 THEN {"raise"} ELSE {"ok"}
    ELSE IF mt = "xgboost"
    THEN IF Classes(b) = {1} THEN {"raise"}
         ELSE IF Classes(b) = {0} THEN {"ok", "raise"}
         ELSE {"ok"}
    ELSE {"ok"}

\* StratifiedKFold(n_splits=cv).split raises when there are fewer rows than
\* folds and when every class has fewer rows than folds.
KFoldFails(b, cv) ==
    \/ cv < 2
    \/ cv > BagCardinality(b)
    \/ \A c \in Classes(b) : cv > ClassCount(b, c)

\* The training parts of the folds: a fold holds out the cv-th part of each
\* class, rounded down or up.
KFoldTrainParts(b, cv) ==
    {u \in SubBag(b) :
        \A c \in {0, 1} :
            LET held == ClassCount(b, c) - ClassCount(u, c)
            IN  held \in {ClassCount(b, c) \div cv,
                          (ClassCount(b, c) + cv - 1) \div cv}}

\* Lines 372-383: the fits of the folds.  The loop raises when the fit of a
\* fold raises.  y_train[train_idx] (line 374) looks the positions up as index
\* labels when y_train is the Series of the split (positional is FALSE): a
\* KeyError unless the labels of the training rows are 0..n-1.
FoldLoopOutcomes(mt, b, cv, positional) ==
    LET parts == KFoldTrainParts(b, cv)
    IN  (IF \A u \in parts : "ok" \in FitOutcomes(mt, u) THEN {"ok"} ELSE {})
        \cup (IF \E u \in parts : "raise" \in FitOutcomes(mt, u)
              THEN {"raise"} ELSE {})
        \cup (IF positional THEN {} ELSE {"raise"})

Raised == [raised |-> TRUE, model |-> NoModel]

Returned(m) == [raised |-> FALSE, model |-> m]

\* The last step of each mode: a fit on all rows of b.
FitOnAll(m, mt, b) ==
    (IF "ok" \in FitOutcomes(mt, b) THEN {Returned(FitModel(m, b))} ELSE {})
    \cup (IF "raise" \in FitOutcomes(mt, b) THEN {Raised} ELSE {})

\* Lines 364-383: the model after the fits of the folds; it holds the
\* training part of the last fold.
CrossValidated(m, b, cv) ==
    {[m EXCEPT !.fitted = TRUE, !.fitted_on = u, !.fits = @ + cv] :
        u \in KFoldTrainParts(b, cv)}

\* train_model that returns the model as the last fold left it.
train_model_NoRefit(b, mt, cv, grid, positional) ==
    IF mt \notin ModelTypes THEN {Raised}
    ELSE IF cv # 0 /\ grid
    THEN IF KFoldFails(b, cv) THEN {Raised}
         ELSE FitOnAll([NewModel(mt) EXCEPT !.config = "best"], mt, b)
    ELSE IF cv # 0
    THEN IF KFoldFails(b, cv) THEN {Raised}
         ELSE {Returned(m) : m \in CrossValidated(NewModel(mt), b, cv)}
    ELSE FitOnAll(NewModel(mt), mt, b)

\* train_model(X_train, y_train, model_type, class_weight, cv, grid_search):
\* the results the call can have, a returned model or an exception.
\* Lines 351-363: GridSearchCV refits the best configuration on all rows;
\* lines 364-390: the folds, then a fit on all rows; line 392: one fit.
train_model(b, mt, cv, grid, positional) ==
    IF mt \notin ModelTypes THEN {Raised}
    ELSE IF cv # 0 /\ grid
    THEN IF KFoldFails(b, cv) THEN {Raised}
         ELSE FitOnAll([NewModel(mt) EXCEPT !.config = "best"], mt, b)
    ELSE IF cv # 0
    THEN IF KFoldFails(b, cv) THEN {Raised}
         ELSE LET loop == FoldLoopOutcomes(mt, b, cv, positional)
              IN  (IF "raise" \in loop THEN {Raised} ELSE {})
                  \cup (IF "ok" \in loop
                        THEN UNION {FitOnAll(m, mt, b) :
                                      m \in CrossValidated(NewModel(mt), b, cv)}
                        ELSE {})
    ELSE FitOnAll(NewModel(mt), mt, b)

\* Line 448: hasattr(model, 'feature_importances_').
HasFeatureImportances(m) == m.family \in {"random_forest", "xgboost"}

\* evaluate_model raises when predict_proba(X_test)[:, 1] (line 416) meets a
\* model fit on one class, when roc_auc_score (line 436) meets a y_test of
\* one class, and when X_test.columns (line 464) is asked of an array.
EvaluateFails(m, X_test, is_frame) ==
    \/ Cardinality(Classes(m.fitted_on)) < 2
    \/ Cardinality(Classes(X_test)) < 2
    \/ HasFeatureImportances(m) /\ ~is_frame

NoMetrics ==
    [evaluated |-> FALSE, support |-> [c \in {0, 1} |-> 0],
     feature_importance |-> "none"]

\* Lines 475-487: the metrics dict.
evaluate_model(m, X_test) ==
    [evaluated |-> TRUE,
     support |-> [c \in {0, 1} |-> ClassCount(X_test, c)],
     feature_importance |->
        IF HasFeatureImportances(m) THEN "ranking" ELSE "absent"]

FeatureColumns == <<"recency", "num_orders", "total_spent", "avg_order_value",
                    "std_order_value", "avg_installments", "cancel_rate",
                    "avg_review">>

(***************************************************************************)
(* churn_analysis.py, main, lines 629-676: the text of the report.  A line *)
(* is recorded by the section it belongs to, its text up to the first      *)
(* colon, and whether a colon follows that text; the values after the      *)
(* colon are left out.                                                     *)
(***************************************************************************)
Line(section, label, colon) ==
    [section |-> section, label |-> label, colon |-> colon]

\* Lines 154-158: the keys of the dict analyze_data_distribution returns.
DistMetricsKeys == {"churn_count", "churn_rate", "correlations"}

\* Lines 656-663 with the weighted F1 line labelled as the macro one is.
PerformanceLines_F1Unlabelled(all_metrics) ==
    <<Line("metrics", "Métricas de performance", TRUE),
      Line("metrics", "Accuracy", TRUE),
      Line("metrics", "Precision (weighted)", TRUE),
      Line("metrics", "Recall (weighted)", TRUE),
      Line("metrics", "F1 (macro)", TRUE),
      Line("metrics", "F1 (macro)", TRUE),
      Line("metrics", "AUC-ROC", TRUE),
      Line("metrics", "Average Precision Score", TRUE)>>

\* Lines 656-663
PerformanceLines(all_metrics) ==
    <<Line("metrics", "Métricas de performance", TRUE),
      Line("metrics", "Accuracy", TRUE),
      Line("metrics", "Precision (weighted)", TRUE),
      Line("metrics", "Recall (weighted)", TRUE),
      Line("metrics", "F1 (macro)", TRUE),
      Line("metrics", "F1 (weighted)", TRUE),
      Line("metrics", "AUC-ROC", TRUE),
      Line("metrics", "Average Precision Score", TRUE)>>

\* Lines 629-676.  The correlation lines are one per column of the
\* correlation with churn, churn itself included; the importance lines,
\* one per feature, start with the feature's name and its display name in
\* brackets.
ResultsText(dist_metrics, all_metrics) ==
    <<Line("title", "Análise de Churn - Olist", FALSE),
      Line("timestamp", "Data de execução", TRUE),
      Line("configuration", "Configurações", TRUE),
      Line("configuration", "Data de corte para análise de churn", TRUE),
      Line("configuration", "Método de rebalanceamento", TRUE),
      Line("configuration", "Tipo de modelo", TRUE),
      Line("configuration", "Class weight", TRUE)>>
    \o (IF "churn_count" \in dist_metrics
        THEN <<Line("distribution", "Distribuição de churn", TRUE),
               Line("distribution", "Não-churn (0)", TRUE),
               Line("distribution", "Churn (1)", TRUE),
               Line("distribution", "Taxa de churn", TRUE)>>
        ELSE <<>>)
    \o (IF "correlations" \in dist_metrics
        THEN <<Line("correlations", "Top correlações com churn", TRUE),
               Line("correlations", "churn", TRUE)>>
             \o [i \in 1..Len(FeatureColumns) |->
                    Line("correlations", FeatureColumns[i], TRUE)]
        ELSE <<>>)
    \o PerformanceLines(all_metrics)
    \o <<Line("classification_report", "Relatório de classificação", TRUE),
         Line("classification_report", "precision recall f1-score support",
              FALSE),
         Line("confusion_matrix", "Matriz de confusão", TRUE),
         Line("confusion_matrix", "[[", FALSE)>>
    \o (IF all_metrics.feature_importance = "ranking"
        THEN <<Line("feature_importance", "Importância das features", TRUE)>>
             \o [i \in 1..Len(FeatureColumns) |->
                    Line("feature_importance", FeatureColumns[i], TRUE)]
        ELSE <<>>)

\* paginas/analise_churn.py: the texts the dashboard looks for in the
\* report.  The metric names (lines 428-429) are matched at the start of a
\* line that holds ': ' (line 427); the others are searched with their
\* colon (lines 138, 474, 511, 513, 543, 641, 720).
DashboardMetricNames ==
    {"Accuracy", "Precision (weighted)", "Recall (weighted)",
     "F1 (weighted)", "AUC-ROC"}

DashboardLineTexts == {"Taxa de churn", "Não-churn (0)", "Churn (1)"}

DashboardSectionHeaders ==
    {"Matriz de confusão", "Relatório de classificação",
     "Top correlações com churn", "Importância das features"}

\* A line of the report that the dashboard's search for the text finds.
Matches(text, line) == line.label = text /\ line.colon

\* The bundle a previous run left under models/.
PreviousBundle ==
    [model |-> [run |-> "previous", obj |-> NoModel],
     scaler |-> [run |-> "previous", obj |-> UnfittedScaler],
     feature_columns |-> [run |-> "previous", obj |-> FeatureColumns],
     results |-> [run |-> "previous",
                  obj |-> ResultsText(DistMetricsKeys, NoMetrics)]]

BundleFiles == <<"model", "scaler", "feature_columns", "results">>

\* The files after save_model_and_results wrote the first k objects; when
\* k < 4 the next write raised, either before its file was opened or after
\* open(..., 'wb') had emptied it.
StoreAfter(old, new, k, emptied) ==
    [f \in DOMAIN old |->
        LET i == CHOOSE j \in 1..Len(BundleFiles) : BundleFiles[j] = f
        IN  IF i <= k THEN [run |-> "current", obj |-> new[f]]
            ELSE IF i = k + 1 /\ emptied THEN [run |-> "empty", obj |-> old[f].obj]
            ELSE old[f]]

\* The defaults of main (line 567) and of the command line (lines 690-704).
DefaultTestSize == <<3, 10>>

DefaultCv == 5

\* paginas/analise_churn.py reads 'churn_model.pkl', 'churn_scaler.pkl' and
\* 'churn_feature_columns.pkl' from its working directory.
LocalFiles == <<"model", "scaler", "feature_columns">>

Absent == [run |-> "absent", obj |-> <<>>]

NoLocalFiles == [f \in Range(LocalFiles) |-> Absent]

NotLoaded == [by |-> "none", outcome |-> "none", objects |-> <<>>]

\* The prediction tab before a row is submitted.
NoPrediction ==
    /\ input_df = <<>>
    /\ prediction = [outcome |-> "none", missing |-> <<>>,
                     probability |-> NaN]

\* No second run saves next to this one.
NoWriters == <<>>

\* The objects read from the first k of the files.
ReadFiles(files, k) == [i \in 1..k |-> files[LocalFiles[i]]]

\* paginas/analise_churn.py, lines 764-783: the prediction tab warns when
\* 'churn_model.pkl' does not exist; otherwise it opens the three files one
\* after the other, and open() raises for a file that is missing.
LoadPredictionBundle(files) ==
    IF files.model = Absent
    THEN [by |-> "prediction", outcome |-> "not_found", objects |-> <<>>]
    ELSE IF files.scaler = Absent
    THEN [by |-> "prediction", outcome |-> "failed",
          objects |-> ReadFiles(files, 1)]
    ELSE IF files.feature_columns = Absent
    THEN [by |-> "prediction", outcome |-> "failed",
          objects |-> ReadFiles(files, 2)]
    ELSE [by |-> "prediction", outcome |-> "loaded",
          objects |-> ReadFiles(files, 3)]

\* paginas/analise_churn.py, lines 45-48: load_model reads 'churn_model.pkl'
\* only; joblib.load raises when the file is missing.
load_model(files) ==
    IF files.model = Absent
    THEN [by |-> "load_model", outcome |-> "failed", objects |-> <<>>]
    ELSE [by |-> "load_model", outcome |-> "loaded",
          objects |-> ReadFiles(files, 1)]

RunNotStarted ==
    /\ dataset = EmptyBag
    /\ rebalance_method = "smote"
    /\ test_size = DefaultTestSize
    /\ model_type = "random_forest"
    /\ use_cv = DefaultCv
    /\ grid_search = FALSE
    /\ local_files = NoLocalFiles
    /\ loaded = NotLoaded
    /\ NoPrediction
    /\ writers = NoWriters
    /\ train = EmptyBag
    /\ test = EmptyBag
    /\ scaler = UnfittedScaler
    /\ train_scaled = EmptyBag
    /\ test_scaled = EmptyBag
    /\ model = NoModel
    /\ eval_metrics = NoMetrics
    /\ store = PreviousBundle

(***************************************************************************)
(* Actions of load_and_prepare_data.                                       *)
(***************************************************************************)
Init ==
    /\ pc = "start"
    /\ cutoff_date \in CutoffDates
    /\ \E n \in OrderIds :
         \E attrs \in [1..n -> OrderAttrs] :
           \E pays \in [1..n -> PaymentLists] :
             /\ TotalLen(n, pays) <= MaxRows
             /\ df = FlatTable(n, attrs, pays)
    /\ features_df = <<>>
    /\ churn_df = <<>>
    /\ churn_analysis_df = <<>>
    /\ RunNotStarted

\* load_and_prepare_data, line 57
CalculateChurnFeatures ==
    /\ pc = "start"
    /\ features_df' = calculate_churn_features(df, cutoff_date)
    /\ pc' = "features"
    /\ UNCHANGED <<df, cutoff_date, churn_df, churn_analysis_df, runVars>>

\* load_and_prepare_data, line 61
DefineChurn ==
    /\ pc = "features"
    /\ churn_df' = define_churn(df, cutoff_date)
    /\ pc' = "labels"
    /\ UNCHANGED <<df, cutoff_date, features_df, churn_analysis_df, runVars>>

\* load_and_prepare_data, lines 65-122
Assemble ==
    /\ pc = "labels"
    /\ churn_analysis_df' = FinalCheck(FillMissing(Merge(features_df, churn_df)))
    /\ pc' = "assembled"
    /\ UNCHANGED <<df, cutoff_date, features_df, churn_df, runVars>>

Next == CalculateChurnFeatures \/ DefineChurn \/ Assemble

Spec == Init /\ [][Next]_vars

(***************************************************************************)
(* load_and_prepare_data on order tables in which a customer id or a       *)
(* purchase timestamp may be missing.                                      *)
(***************************************************************************)
NullableOrderAttrs == [customer_unique_id : Customers \cup {NullId},
                       order_purchase_timestamp : {1, 3, NaT},
                       order_status : {"delivered"},
                       review_score : {Rat(5)}]

InitNulls ==
    /\ pc = "start"
    /\ cutoff_date \in CutoffDates
    /\ \E n \in OrderIds :
         \E attrs \in [1..n -> NullableOrderAttrs] :
           \E pays \in [1..n -> PaymentLists] :
             /\ TotalLen(n, pays) <= MaxRows
             /\ df = FlatTable(n, attrs, pays)
    /\ features_df = <<>>
    /\ churn_df = <<>>
    /\ churn_analysis_df = <<>>
    /\ RunNotStarted

SpecNulls == InitNulls /\ [][Next]_vars

(***************************************************************************)
(* The same run on order tables with up to three customers, each with one  *)
(* order of one row: datasets in which the avg_review column holds several *)
(* per-customer values.                                                    *)
(***************************************************************************)
ReviewCustomers == {1, 2, 3}

ReviewTimes == {2, 3}

InitReviews ==
    /\ pc = "start"
    /\ cutoff_date \in CutoffDates
    /\ \E n \in ReviewCustomers :
         \E attrs \in [1..n -> [order_purchase_timestamp : ReviewTimes,
                                order_status : Statuses,
                                review_score : ReviewScores]] :
           \E pays \in [1..n -> {<<NoPayment>>} \cup {<<p>> : p \in Payments}] :
             df = FlatTable(n,
                            [i \in 1..n |->
                                [customer_unique_id |-> i,
                                 order_purchase_timestamp |->
                                     attrs[i].order_purchase_timestamp,
                                 order_status |-> attrs[i].order_status,
                                 review_score |-> attrs[i].review_score]],
                            pays)
    /\ features_df = <<>>
    /\ churn_df = <<>>
    /\ churn_analysis_df = <<>>
    /\ RunNotStarted

SpecReviews == InitReviews /\ [][Next]_vars

(***************************************************************************)
(* Actions of main, from the returned dataset on.                          *)
(***************************************************************************)
RebalanceMethods == {"smote", "undersample", "none"}

RunModelTypes == {"random_forest", "logistic_regression"}

InitRun ==
    /\ pc = "assembled"
    /\ cutoff_date \in CutoffDates
    /\ df = <<>>
    /\ features_df = <<>>
    /\ churn_df = <<>>
    /\ churn_analysis_df = <<>>
    /\ \E n0, n1 \in 0..MaxPerClass, k0, k1 \in 0..MaxOnes, allNaN \in BOOLEAN :
          /\ k0 <= n0
          /\ k1 <= n1
          /\ allNaN => (k0 = 0 /\ k1 = 0)
          /\ dataset = Dataset(n0, k0, n1, k1, allNaN)
    /\ rebalance_method \in RebalanceMethods
    /\ test_size = DefaultTestSize
    /\ model_type \in RunModelTypes
    /\ use_cv = DefaultCv
    /\ grid_search = FALSE
    /\ local_files = NoLocalFiles
    /\ loaded = NotLoaded
    /\ NoPrediction
    /\ writers = NoWriters
    /\ train = EmptyBag
    /\ test = EmptyBag
    /\ scaler = UnfittedScaler
    /\ train_scaled = EmptyBag
    /\ test_scaled = EmptyBag
    /\ model = NoModel
    /\ eval_metrics = NoMetrics
    /\ store = PreviousBundle

\* main, line 597
AnalyzeDataDistribution ==
    /\ pc = "assembled"
    /\ pc' = Raise(AnalyzeFails(dataset), "analyzed")
    /\ UNCHANGED <<dataVars, runVars>>

\* main, lines 603-605
TrainTestSplit ==
    /\ pc = "analyzed"
    /\ IF SplitFails(dataset, test_size)
       THEN UNCHANGED <<train, test>>
       ELSE \E sp \in TrainTestSplits(dataset, test_size) :
               /\ train' = sp.train
               /\ test' = sp.test
    /\ pc' = Raise(SplitFails(dataset, test_size), "split")
    /\ UNCHANGED <<dataVars, paramVars, inferVars, predictVars, writers, dataset, rebalance_method,
                   test_size, scaler,
                   train_scaled, test_scaled, model, eval_metrics, store>>

\* main, line 608
NormalizeData ==
    /\ pc = "split"
    /\ LET r == normalize_data(train, test)
       IN  /\ train_scaled' = r.X_train_scaled
           /\ test_scaled' = r.X_test_scaled
           /\ scaler' = r.scaler
    /\ pc' = "normalized"
    /\ UNCHANGED <<dataVars, paramVars, inferVars, predictVars, writers, dataset, rebalance_method,
                   test_size, train, test,
                   model, eval_metrics, store>>

\* main, lines 611-612
RebalanceData ==
    /\ pc = "normalized"
    /\ IF rebalance_method = "none"
       THEN /\ pc' = "rebalanced"
            /\ UNCHANGED train_scaled
       ELSE /\ IF RebalanceFails(train_scaled, rebalance_method)
               THEN UNCHANGED train_scaled
               ELSE train_scaled'
                       \in rebalance_data(train_scaled, rebalance_method)
            /\ pc' = Raise(RebalanceFails(train_scaled, rebalance_method),
                           "rebalanced")
    /\ UNCHANGED <<dataVars, paramVars, inferVars, predictVars, writers, dataset, rebalance_method,
                   test_size, train, test,
                   scaler, test_scaled, model, eval_metrics, store>>

\* main, lines 615-621
TrainModel ==
    /\ pc = "rebalanced"
    /\ \E r \in train_model(train_scaled, model_type, use_cv, grid_search,
                            rebalance_method # "none") :
          /\ model' = IF r.raised THEN model ELSE r.model
          /\ pc' = Raise(r.raised, "trained")
    /\ UNCHANGED <<dataVars, paramVars, inferVars, predictVars, writers, dataset, rebalance_method,
                   test_size, train, test,
                   scaler, train_scaled, test_scaled, eval_metrics, store>>

\* main, line 624
EvaluateModel ==
    /\ pc = "trained"
    /\ eval_metrics' = IF EvaluateFails(model, test_scaled, FALSE)
                       THEN eval_metrics
                       ELSE evaluate_model(model, test_scaled)
    /\ pc' = Raise(EvaluateFails(model, test_scaled, FALSE), "evaluated")
    /\ UNCHANGED <<dataVars, paramVars, inferVars, predictVars, writers, dataset, rebalance_method,
                   test_size, train, test,
                   scaler, train_scaled, test_scaled, model, store>>

\* main, lines 678-681
SaveModelAndResults ==
    /\ pc = "evaluated"
    /\ \E k \in 0..Len(BundleFiles), emptied \in BOOLEAN :
          /\ k = Len(BundleFiles) => ~emptied
          /\ store' = StoreAfter(store,
                        [model |-> model, scaler |-> scaler,
                         feature_columns |-> FeatureColumns,
                         results |->
                            ResultsText(DistMetricsKeys, eval_metrics)],
                        k, emptied)
    /\ pc' = "saved"
    /\ UNCHANGED <<dataVars, paramVars, inferVars, predictVars, writers, dataset, rebalance_method,
                   test_size, train, test,
                   scaler, train_scaled, test_scaled, model, eval_metrics>>

NextRun ==
    \/ AnalyzeDataDistribution
    \/ TrainTestSplit
    \/ NormalizeData
    \/ RebalanceData
    \/ TrainModel
    \/ EvaluateModel
    \/ SaveModelAndResults

SpecRun == InitRun /\ [][NextRun]_vars

(***************************************************************************)
(* main under every combination of its arguments, on datasets with no, few *)
(* or many rows of a class.                                                *)
(***************************************************************************)
TestSizes == {DefaultTestSize, <<3, 2>>}

ModelTypeArgs == ModelTypes \cup {"svm"}

UseCvArgs == {0, DefaultCv}

ClassSizes == {0, 2, MaxPerClass}

InitArgs ==
    /\ pc = "assembled"
    /\ cutoff_date \in CutoffDates
    /\ df = <<>>
    /\ features_df = <<>>
    /\ churn_df = <<>>
    /\ churn_analysis_df = <<>>
    /\ \E n0, n1 \in ClassSizes, k0, k1 \in 0..MaxOnes, allNaN \in BOOLEAN :
          /\ k0 <= n0
          /\ k1 <= n1
          /\ allNaN => (k0 = 0 /\ k1 = 0)
          /\ dataset = Dataset(n0, k0, n1, k1, allNaN)
    /\ rebalance_method \in RebalanceMethods
    /\ test_size \in TestSizes
    /\ model_type \in ModelTypeArgs
    /\ use_cv \in UseCvArgs
    /\ grid_search \in BOOLEAN
    /\ local_files = NoLocalFiles
    /\ loaded = NotLoaded
    /\ NoPrediction
    /\ writers = NoWriters
    /\ train = EmptyBag
    /\ test = EmptyBag
    /\ scaler = UnfittedScaler
    /\ train_scaled = EmptyBag
    /\ test_scaled = EmptyBag
    /\ model = NoModel
    /\ eval_metrics = NoMetrics
    /\ store = PreviousBundle

SpecArgs == InitArgs /\ [][NextRun]_vars

(***************************************************************************)
(* The dashboard next to the end of a run: the run has evaluated its model *)
(* and saves it; the dashboard, started in the same working directory,     *)
(* loads what it finds there.                                              *)
(***************************************************************************)
LoadClassSizes == {2, 3}

LocalFileStates ==
    {g \in [Range(LocalFiles) -> {"absent", "previous"}] : TRUE}

InitLoad ==
    /\ pc = "evaluated"
    /\ cutoff_date \in CutoffDates
    /\ df = <<>>
    /\ features_df = <<>>
    /\ churn_df = <<>>
    /\ churn_analysis_df = <<>>
    /\ rebalance_method = "none"
    /\ test_size = DefaultTestSize
    /\ model_type = "logistic_regression"
    /\ use_cv = 0
    /\ grid_search \in BOOLEAN
    /\ \E n0, n1 \in LoadClassSizes, k0, k1 \in 0..MaxOnes :
          /\ dataset = Dataset(n0, k0, n1, k1, FALSE)
          /\ \E sp \in TrainTestSplits(Dataset(n0, k0, n1, k1, FALSE),
                                       DefaultTestSize) :
                LET r == normalize_data(sp.train, sp.test)
                    m == FitModel(NewModel("logistic_regression"),
                                  r.X_train_scaled)
                IN  /\ train = sp.train
                    /\ test = sp.test
                    /\ scaler = r.scaler
                    /\ train_scaled = r.X_train_scaled
                    /\ test_scaled = r.X_test_scaled
                    /\ model = m
                    /\ eval_metrics = evaluate_model(m, r.X_test_scaled)
    /\ store = PreviousBundle
    /\ \E g \in LocalFileStates :
          local_files = [f \in Range(LocalFiles) |->
                            IF g[f] = "absent" THEN Absent
                            ELSE PreviousBundle[f]]
    /\ loaded = NotLoaded
    /\ NoPrediction
    /\ writers = NoWriters

\* paginas/analise_churn.py, lines 763-783
LoadPrediction ==
    /\ pc \in {"evaluated", "saved"}
    /\ loaded = NotLoaded
    /\ loaded' = LoadPredictionBundle(local_files)
    /\ UNCHANGED <<pc, dataVars, paramVars, predictVars, writers, dataset, rebalance_method,
                   test_size, train, test, scaler, train_scaled, test_scaled,
                   model, eval_metrics, store, local_files>>

\* paginas/analise_churn.py, line 425
LoadModel ==
    /\ pc \in {"evaluated", "saved"}
    /\ loaded = NotLoaded
    /\ loaded' = load_model(local_files)
    /\ UNCHANGED <<pc, dataVars, paramVars, predictVars, writers, dataset, rebalance_method,
                   test_size, train, test, scaler, train_scaled, test_scaled,
                   model, eval_metrics, store, local_files>>

\* What requests.get(model_url) can meet: an answer with a status and a
\* body, a connection that fails, or a server that never answers.
Responses ==
    {[status |-> "200", body |-> PreviousBundle.model],
     [status |-> "404", body |-> [run |-> "error_page", obj |-> <<>>]],
     [status |-> "500", body |-> [run |-> "error_page", obj |-> <<>>]],
     [status |-> "connection_error", body |-> Absent],
     [status |-> "no_answer", body |-> Absent]}

\* paginas/analise_churn.py, lines 40-44: with STREAMLIT_SHARING set,
\* requests.get is called without a timeout, so it does not return while
\* the server stays silent; a connection failure raises; any answer,
\* whatever its status, has its body handed to joblib.load, which raises
\* on a body that is not a pickle.
load_model_remote(response) ==
    IF response.status = "no_answer"
    THEN [by |-> "load_model_remote", outcome |-> "waiting", objects |-> <<>>]
    ELSE IF response.status = "connection_error"
    THEN [by |-> "load_model_remote", outcome |-> "connection_error",
          objects |-> <<>>]
    ELSE IF response.body.run = "error_page"
    THEN [by |-> "load_model_remote", outcome |-> "unpickling_error",
          objects |-> <<response.body>>]
    ELSE [by |-> "load_model_remote", outcome |-> "loaded",
          objects |-> <<response.body>>]

\* paginas/analise_churn.py, line 425, in production
LoadModelRemote ==
    /\ pc \in {"evaluated", "saved"}
    /\ loaded = NotLoaded
    /\ \E response \in Responses : loaded' = load_model_remote(response)
    /\ UNCHANGED <<pc, dataVars, paramVars, predictVars, writers, dataset,
                   rebalance_method, test_size, train, test, scaler,
                   train_scaled, test_scaled, model, eval_metrics, store,
                   local_files>>

NextLoad ==
    SaveModelAndResults \/ LoadPrediction \/ LoadModel \/ LoadModelRemote

SpecLoad == InitLoad /\ [][NextLoad]_vars

(***************************************************************************)
(* Two runs saving at the same time into the same models/ directory: this  *)
(* run and another process started next to it.  Each of the four writes    *)
(* of save_model_and_results is two steps, open(..., 'wb'), which empties  *)
(* the file, and the dump that fills it when the with-block closes; the    *)
(* steps of the two processes interleave freely.                           *)
(***************************************************************************)
Runs == {"current", "other"}

\* The objects a run hands to save_model_and_results (main, lines 678-681).
RunBundle(r) ==
    IF r = "current"
    THEN [model |-> model, scaler |-> scaler,
          feature_columns |-> FeatureColumns,
          results |-> ResultsText(DistMetricsKeys, eval_metrics)]
    ELSE [f \in DOMAIN PreviousBundle |-> PreviousBundle[f].obj]

\* Steps of one save: an open and a dump for each file, in the order of
\* lines 496-509.
SaveSteps == 2 * Len(BundleFiles)

SaveFinished(r) == writers[r] = SaveSteps

InitSaves ==
    /\ pc = "evaluated"
    /\ cutoff_date \in CutoffDates
    /\ df = <<>>
    /\ features_df = <<>>
    /\ churn_df = <<>>
    /\ churn_analysis_df = <<>>
    /\ rebalance_method = "none"
    /\ test_size = DefaultTestSize
    /\ model_type = "logistic_regression"
    /\ use_cv = 0
    /\ grid_search = FALSE
    /\ \E n0, n1 \in LoadClassSizes, k0, k1 \in 0..MaxOnes :
          /\ dataset = Dataset(n0, k0, n1, k1, FALSE)
          /\ \E sp \in TrainTestSplits(Dataset(n0, k0, n1, k1, FALSE),
                                       DefaultTestSize) :
                LET r == normalize_data(sp.train, sp.test)
                    m == FitModel(NewModel("logistic_regression"),
                                  r.X_train_scaled)
                IN  /\ train = sp.train
                    /\ test = sp.test
                    /\ scaler = r.scaler
                    /\ train_scaled = r.X_train_scaled
                    /\ test_scaled = r.X_test_scaled
                    /\ model = m
                    /\ eval_metrics = evaluate_model(m, r.X_test_scaled)
    /\ store = PreviousBundle
    /\ local_files = NoLocalFiles
    /\ loaded = NotLoaded
    /\ NoPrediction
    /\ writers = [r \in Runs |-> 0]

\* churn_analysis.py, lines 496-509: the next step of run r's save.
WriteFile(r) ==
    /\ r = "current" => pc = "evaluated"
    /\ writers \in [Runs -> 0..SaveSteps]
    /\ ~SaveFinished(r)
    /\ LET s == writers[r] + 1
           f == BundleFiles[(s + 1) \div 2]
       IN  store' = [store EXCEPT ![f] =
                        IF s % 2 = 1
                        THEN [run |-> "empty", obj |-> <<>>]
                        ELSE [run |-> r, obj |-> RunBundle(r)[f]]]
    /\ writers' = [writers EXCEPT ![r] = @ + 1]
    /\ pc' = IF r = "current" /\ writers'[r] = SaveSteps
             THEN "saved" ELSE pc
    /\ UNCHANGED <<dataVars, paramVars, inferVars, predictVars, dataset,
                   rebalance_method, test_size, train, test, scaler,
                   train_scaled, test_scaled, model, eval_metrics>>

NextSaves == \E r \in Runs : WriteFile(r)

SpecSaves == InitSaves /\ [][NextSaves]_vars

(***************************************************************************)
(* The prediction tab after its bundle is loaded: the block run when the   *)
(* form is submitted (paginas/analise_churn.py, lines 849-866), on every   *)
(* one-row input frame over the persisted column names, complete or not,   *)
(* in any column order.  A frame is the sequence of its columns, each a    *)
(* name and the value of the row.                                          *)
(***************************************************************************)
PersistedColumns == SubSeq(FeatureColumns, 1, MaxFeatures)

\* A fitted scaler and a fitted linear model over the persisted columns,
\* with parameters that differ from column to column.
PersistedScaler ==
    [mean_ |-> [i \in 1..MaxFeatures |-> Rat(i)],
     scale_ |-> [i \in 1..MaxFeatures |-> Rat(i + 1)]]

PersistedModel ==
    [coef_ |-> [i \in 1..MaxFeatures |-> Rat(i)], intercept_ |-> Rat(1)]

PredictionBundle ==
    [by |-> "prediction", outcome |-> "loaded",
     objects |-> <<[run |-> "previous", obj |-> PersistedModel],
                   [run |-> "previous", obj |-> PersistedScaler],
                   [run |-> "previous", obj |-> PersistedColumns]>>]

InputValues == {Rat(0), Rat(1), Rat(2)}

InputFrames ==
    UNION {{f \in [1..k -> [name : Range(PersistedColumns),
                            value : InputValues]] :
               \A i, j \in 1..k : i # j => f[i].name # f[j].name} :
           k \in 0..MaxFeatures}

FrameColumns(frame) == [i \in 1..Len(frame) |-> frame[i].name]

FrameValue(frame, col) ==
    frame[CHOOSE i \in 1..Len(frame) : frame[i].name = col].value

\* line 853 with only the first absent column listed.
missing_features_FirstOnly(frame, feature_columns) ==
    LET absent == SelectSeq(feature_columns,
                      LAMBDA col : col \notin Range(FrameColumns(frame)))
    IN  IF absent = <<>> THEN <<>> ELSE <<Head(absent)>>

\* line 853: [col for col in feature_columns if col not in input_df.columns]
missing_features(frame, feature_columns) ==
    SelectSeq(feature_columns,
              LAMBDA col : col \notin Range(FrameColumns(frame)))

\* line 858 with the columns left in the order of the input frame.
SelectColumns_InputOrder(frame, feature_columns) ==
    [i \in 1..Len(feature_columns) |-> frame[i].value]

\* line 858: input_df[feature_columns], the row's values in the order of
\* the persisted list.
SelectColumns(frame, feature_columns) ==
    [i \in 1..Len(feature_columns) |-> FrameValue(frame, feature_columns[i])]

\* line 861: StandardScaler.transform, column by position.
ScalerTransform(sc, x) ==
    [i \in 1..Len(x) |-> RatDiv(RatSub(x[i], sc.mean_[i]), sc.scale_[i])]

RECURSIVE DotProduct(_, _)
DotProduct(w, x) ==
    IF w = <<>> THEN Rat(0)
    ELSE RatAdd(RatMul(Head(w), Head(x)), DotProduct(Tail(w), Tail(x)))

\* lines 864-865: predict_proba(input_scaled)[0][1] of a linear model is
\* the logistic function of intercept_ + coef_ . x.  The logistic function
\* is strictly increasing, so the probability is recorded by its log-odds:
\* two probabilities are equal exactly when their log-odds are.
PredictProba(mdl, x) == RatAdd(mdl.intercept_, DotProduct(mdl.coef_, x))

\* lines 849-866
churn_probability(frame, bundle) ==
    LET mdl             == bundle[1].obj
        sc              == bundle[2].obj
        feature_columns == bundle[3].obj
        missing         == missing_features(frame, feature_columns)
    IN  IF missing # <<>>
        THEN [outcome |-> "error", missing |-> missing, probability |-> NaN]
        ELSE [outcome |-> "ok", missing |-> <<>>,
              probability |->
                 PredictProba(mdl,
                     ScalerTransform(sc,
                         SelectColumns(frame, feature_columns)))]

InitPredict ==
    /\ pc = "saved"
    /\ cutoff_date \in CutoffDates
    /\ df = <<>>
    /\ features_df = <<>>
    /\ churn_df = <<>>
    /\ churn_analysis_df = <<>>
    /\ dataset = EmptyBag
    /\ rebalance_method = "none"
    /\ test_size = DefaultTestSize
    /\ model_type = "logistic_regression"
    /\ use_cv = 0
    /\ grid_search = FALSE
    /\ train = EmptyBag
    /\ test = EmptyBag
    /\ scaler = UnfittedScaler
    /\ train_scaled = EmptyBag
    /\ test_scaled = EmptyBag
    /\ model = NoModel
    /\ eval_metrics = NoMetrics
    /\ store = PreviousBundle
    /\ local_files = [f \in Range(LocalFiles) |-> PreviousBundle[f]]
    /\ loaded = PredictionBundle
    /\ NoPrediction
    /\ writers = NoWriters

\* paginas/analise_churn.py, lines 849-866: the form is submitted.
Predict ==
    /\ loaded.by = "prediction"
    /\ loaded.outcome = "loaded"
    /\ prediction.outcome = "none"
    /\ \E frame \in InputFrames :
          /\ input_df' = <<frame>>
          /\ prediction' = churn_probability(frame, loaded.objects)
    /\ UNCHANGED <<pc, dataVars, paramVars, inferVars, writers, dataset,
                   rebalance_method, test_size, train, test, scaler,
                   train_scaled, test_scaled, model, eval_metrics, store>>

NextPredict == Predict

SpecPredict == InitPredict /\ [][NextPredict]_vars

(***************************************************************************)
(* Properties of the Label Definer, the Feature Builder and the Dataset    *)
(* Assembler.                                                              *)
(***************************************************************************)
HasOrderAtOrBefore(c) ==
    \E i \in 1..Len(df) : /\ df[i].customer_unique_id = c
                          /\ df[i].order_purchase_timestamp <= cutoff_date

HasOrderAfter(c) ==
    \E i \in 1..Len(df) : /\ df[i].customer_unique_id = c
                          /\ df[i].order_purchase_timestamp > cutoff_date

Labelled(c) == \E i \in 1..Len(churn_df) : churn_df[i].customer_unique_id = c

LabelsDone == pc \in {"labels", "assembled"}

\* C1: define_churn labels a customer iff the customer has an order with
\* purchase timestamp <= cutoff, and the label is 1 iff the customer has no
\* order with purchase timestamp > cutoff (0 otherwise); a customer whose
\* orders are all after the cutoff gets no label.
C1_LabelCorrectness ==
    LabelsDone =>
        /\ \A c \in Customers : Labelled(c) <=> HasOrderAtOrBefore(c)
        /\ \A i \in 1..Len(churn_df) :
              /\ churn_df[i].churn \in {0, 1}
              /\ churn_df[i].churn = 1
                    <=> ~HasOrderAfter(churn_df[i].customer_unique_id)

\* A customer whose only order is exactly at the cutoff is labelled 1, next
\* to a customer who only ordered after the cutoff and has no label.
C1_Witness ==
    /\ pc = "labels"
    /\ \E i \in 1..Len(churn_df) :
          /\ churn_df[i].churn = 1
          /\ \A k \in 1..Len(df) :
                df[k].customer_unique_id = churn_df[i].customer_unique_id
                    => df[k].order_purchase_timestamp = cutoff_date
    /\ \E c \in Customers : HasOrderAfter(c) /\ ~Labelled(c)

\* Tables that agree with t on the rows at or before the cutoff: those rows
\* alone, or those rows followed by one more order placed after the cutoff.
LaterOrderId == 1 + Cardinality(OrderIds)

LaterRows(cutoff) ==
    {OrderRow(LaterOrderId, a, p) :
        a \in {b \in OrderAttrs : /\ b.order_purchase_timestamp > cutoff
                                  /\ b.order_status = "canceled"
                                  /\ b.review_score = Rat(1)},
        p \in {q \in Payments : q.payment_value = Rat(3)}}

SameUpToCutoff(t, cutoff) ==
    {BeforeCutoff(t, cutoff)}
        \cup {BeforeCutoff(t, cutoff) \o <<r>> : r \in LaterRows(cutoff)}

\* C2: the Feature Builder output depends only on the orders with purchase
\* timestamp <= cutoff: every table that agrees with the input on the rows at
\* or before the cutoff, whatever its rows after the cutoff, gives the same
\* feature rows.
C2_FeaturesIgnoreLaterOrders ==
    pc = "features" =>
        \A other \in SameUpToCutoff(df, cutoff_date) :
            calculate_churn_features(other, cutoff_date) = features_df

\* The input holds an order after the cutoff of a customer who also has a
\* feature row.
C2_Witness ==
    /\ pc = "features"
    /\ \E i \in 1..Len(features_df) :
          HasOrderAfter(features_df[i].customer_unique_id)

RowsOf(d, c) == {i \in 1..Len(d) : d[i].customer_unique_id = c}

\* C3: the assembled dataset has exactly one row for every customer with an
\* order at or before the cutoff and no row for any other customer: the join
\* drops no such customer and never yields two rows with one customer id.
C3_OneRowPerActiveCustomer ==
    pc = "assembled" =>
        \A c \in Customers :
            Cardinality(RowsOf(churn_analysis_df, c))
                = IF HasOrderAtOrBefore(c) THEN 1 ELSE 0

\* A customer with two table rows at or before the cutoff has one dataset
\* row, next to a customer without any such order.
C3_Witness ==
    /\ pc = "assembled"
    /\ \E c \in Customers :
          /\ Len(Group(BeforeCutoff(df, cutoff_date), c)) >= 2
          /\ Cardinality(RowsOf(churn_analysis_df, c)) = 1
    /\ \E c \in Customers : ~HasOrderAtOrBefore(c)

DistinctOrders(c) ==
    {df[i].order_id : i \in {k \in 1..Len(df) :
        /\ df[k].customer_unique_id = c
        /\ df[k].order_purchase_timestamp <= cutoff_date}}

\* C4: in the assembled dataset every customer with exactly one distinct
\* order at or before the cutoff has std_order_value = 0.0, however many
\* rows that order has in the flat table.
C4_SingleOrderStdZero ==
    pc = "assembled" =>
        \A i \in 1..Len(churn_analysis_df) :
            Cardinality(DistinctOrders(churn_analysis_df[i].customer_unique_id)) = 1
                => churn_analysis_df[i].std_order_value = Rat(0)

\* C5: the dataset returned by load_and_prepare_data has no null cell.
C5_NoNullCells ==
    pc = "assembled" => MissingCount(churn_analysis_df) = 0

\* C6: when a null cell is left after the fill rules the run aborts there:
\* load_and_prepare_data does not return.
C6_NullsAbortTheRun ==
    MissingCount(FillMissing(Merge(features_df, churn_df))) > 0
        => pc # "assembled"

\* The per-customer mean review score from the order table, and the mean of
\* those means that are defined.
CustomerReview(c) ==
    ColMean(Column(Group(BeforeCutoff(df, cutoff_date), c), "review_score"))

DatasetReviewMean ==
    LET cs == SortedSeq({c \in Range(Column(df, "customer_unique_id")) :
                            HasOrderAtOrBefore(c)})
    IN  ColMean([i \in 1..Len(cs) |-> CustomerReview(cs[i])])

\* C7: after assembly a customer without any review score at or before the
\* cutoff has avg_review equal to the mean of the non-null per-customer
\* avg_review values of the joined dataset, and a customer with a review
\* keeps the customer's own mean.
C7_AvgReviewFill ==
    pc = "assembled" =>
        \A i \in 1..Len(churn_analysis_df) :
            LET c == churn_analysis_df[i].customer_unique_id
            IN  churn_analysis_df[i].avg_review
                    = IF IsNaN(CustomerReview(c)) THEN DatasetReviewMean
                      ELSE CustomerReview(c)

\* A customer without a review is filled with the mean taken over the dataset:
\* two other customers keep their scores 1 and 5 and the third gets 3.
C7_Witness ==
    /\ pc = "assembled"
    /\ \E i, j, k \in 1..Len(churn_analysis_df) :
          /\ IsNaN(CustomerReview(churn_analysis_df[i].customer_unique_id))
          /\ churn_analysis_df[j].avg_review = Rat(1)
          /\ churn_analysis_df[k].avg_review = Rat(5)
          /\ churn_analysis_df[i].avg_review = Rat(3)

CanceledOrders(c) ==
    {df[i].order_id : i \in {k \in 1..Len(df) :
        /\ df[k].customer_unique_id = c
        /\ df[k].order_purchase_timestamp <= cutoff_date
        /\ df[k].order_status = "canceled"}}

\* C8: cancel_rate is the number of the customer's distinct canceled orders
\* at or before the cutoff over num_orders, and never exceeds 1.
C8_CancelRate ==
    pc = "assembled" =>
        \A i \in 1..Len(churn_analysis_df) :
            LET c == churn_analysis_df[i].customer_unique_id
            IN  /\ churn_analysis_df[i].cancel_rate
                      = RatDiv(Rat(Cardinality(CanceledOrders(c))),
                               Rat(Cardinality(DistinctOrders(c))))
                /\ ~RatGt(churn_analysis_df[i].cancel_rate, Rat(1))

(***************************************************************************)
(* Properties of the Imbalance Corrector and of the scaler.                *)
(***************************************************************************)
\* C9: a rebalancing step with method 'smote' or 'undersample' on a training
\* split that holds both classes leaves as many label-0 rows as label-1
\* rows; with method 'none' the training rows and the per-class counts are
\* those of the original training split.
C9_RebalanceEqualCounts ==
    [][(pc = "normalized" /\ pc' = "rebalanced") =>
          IF rebalance_method \in {"smote", "undersample"}
          THEN Classes(train_scaled) = {0, 1}
                  => ClassCount(train_scaled', 0) = ClassCount(train_scaled', 1)
          ELSE /\ train_scaled' = train_scaled
               /\ \A c \in {0, 1} :
                     ClassCount(train_scaled', c) = ClassCount(train, c)]_vars

\* SMOTE has grown the minority class of an unbalanced training split to the
\* size of the majority class.
C9_Witness ==
    /\ pc = "rebalanced"
    /\ rebalance_method = "smote"
    /\ Classes(train) = {0, 1}
    /\ ClassCount(train, 0) # ClassCount(train, 1)
    /\ BagCardinality(train_scaled) > BagCardinality(train)
    /\ ClassCount(train_scaled, 0) = ClassCount(train_scaled, 1)

\* The scaler that one fit on the raw training rows of the split gives.
FitOnTrainingSplit ==
    [fits |-> 1,
     mean_ |-> BagMean(FillNaZero(train)),
     var_ |-> BagVar(FillNaZero(train))]

\* C10: the scaler is fit once, on the raw training rows before rebalancing;
\* the transform of the test rows, rebalancing, training and evaluation leave
\* its parameters as they are, and the scaler written to the store has the
\* parameters of that one fit.
C10_ScalerFitOnceOnTrain ==
    /\ scaler.fits <= 1
    /\ pc \in {"assembled", "analyzed", "split"} => scaler.fits = 0
    /\ pc \in {"normalized", "rebalanced", "trained", "evaluated", "saved"}
          => scaler = FitOnTrainingSplit
    /\ scaler.fits = 1 => scaler = FitOnTrainingSplit
    /\ store.scaler.run = "current" => store.scaler.obj = FitOnTrainingSplit

\* The scaler was saved after a rebalancing that changed the training rows,
\* in a run whose test rows have another mean than its training rows.
C10_Witness ==
    /\ pc = "saved"
    /\ store.scaler.run = "current"
    /\ BagCardinality(train_scaled) # BagCardinality(train)
    /\ BagMean(FillNaZero(test)) # BagMean(FillNaZero(train))

(***************************************************************************)
(* Properties of the Trainer and of the configuration.                     *)
(***************************************************************************)
\* C11: in each of the three modes of train_model the returned classifier's
\* last fit saw all rows of the rebalanced training set: the cross-validation
\* mode fits once more after the fits of its folds, the grid-search mode
\* returns the best configuration refit on all rows, the direct mode fits
\* once.
C11_LastFitOnAllRows ==
    model.fitted =>
        /\ model.fitted_on = train_scaled
        /\ model.config = (IF use_cv # 0 /\ grid_search THEN "best"
                           ELSE "configured")
        /\ model.fits = (IF use_cv # 0 /\ ~grid_search THEN use_cv + 1 ELSE 1)

\* The cross-validation mode returned a model on a training set of both
\* classes: the folds were fit on fewer rows, the last fit on all of them.
C11_Witness ==
    /\ pc = "trained"
    /\ use_cv # 0
    /\ ~grid_search
    /\ Classes(train_scaled) = {0, 1}
    /\ model.fits = use_cv + 1
    /\ \A u \in KFoldTrainParts(train_scaled, use_cv) : u # train_scaled

\* C12: a grid search requested without folds (cv = 0, passed on as None) is
\* rejected: the run never comes to hold a model fit for that request.
C12_GridSearchNeedsFolds ==
    (grid_search /\ use_cv = 0) => ~model.fitted

\* C13: with an unsupported model family or a test_size outside (0, 1) the
\* run stops before its expensive steps: it never comes to split, scale or
\* rebalance.
C13_ConfigErrorsFailFast ==
    (\/ model_type \notin ModelTypes
     \/ ~(RatGt(test_size, Rat(0)) /\ RatGt(Rat(1), test_size)))
        => pc \notin {"split", "normalized", "rebalanced"}

\* C14: with method 'smote' and a minority class of fewer than k + 1 rows in
\* the training split, the rebalancing step fails: the run stops there with
\* the training set as it was and without a model.
C14_SmoteInsufficientSamples ==
    [][(/\ pc = "normalized"
        /\ rebalance_method = "smote"
        /\ ClassCount(train_scaled, 0) # ClassCount(train_scaled, 1)
        /\ ClassCount(train_scaled, Minority(train_scaled)) < K_NEIGHBORS + 1)
          => /\ pc' = "error"
             /\ train_scaled' = train_scaled
             /\ model' = NoModel]_vars

\* The run stopped in the rebalancing step on a training split of both
\* classes whose minority class has between one and k rows.
C14_Witness ==
    /\ pc = "error"
    /\ rebalance_method = "smote"
    /\ scaler.fits = 1
    /\ Classes(train_scaled) = {0, 1}
    /\ ClassCount(train_scaled, 0) # ClassCount(train_scaled, 1)
    /\ ClassCount(train_scaled, Minority(train_scaled)) < K_NEIGHBORS + 1
    /\ model = NoModel

(***************************************************************************)
(* Properties of the Evaluator and of the Artifact Store.                  *)
(***************************************************************************)
\* C15: when the test split holds one class only, the evaluation still
\* returns its metrics and the run goes on.
C15_SingleClassTestEvaluates ==
    [][(pc = "trained" /\ Cardinality(Classes(test_scaled)) = 1)
          => (pc' = "evaluated" /\ eval_metrics'.evaluated)]_vars

\* C16: for a fitted classifier with feature importances (random forest,
\* xgboost) the evaluation returns the ranking and the run goes on; for one
\* without, the ranking is absent and the run goes on.
C16_FeatureImportanceRanking ==
    [][(/\ pc = "trained"
        /\ Classes(model.fitted_on) = {0, 1}
        /\ Classes(test_scaled) = {0, 1})
          => /\ pc' = "evaluated"
             /\ eval_metrics'.feature_importance =
                    (IF model.family \in {"random_forest", "xgboost"}
                     THEN "ranking" ELSE "absent")]_vars

\* C17: after save_model_and_results the four files are all of this run or
\* all as they were before it.
C17_SaveAllOrNothing ==
    pc = "saved" =>
        \/ \A f \in DOMAIN store : store[f].run = "current"
        \/ store = PreviousBundle

\* C18: a run that fails before it comes to save leaves the four files as
\* they were: the files change only in a run whose every step returned.
C18_FailedRunKeepsStore ==
    /\ pc # "saved" => store = PreviousBundle
    /\ store # PreviousBundle
          => /\ scaler.fits = 1
             /\ model.fitted
             /\ eval_metrics.evaluated

\* The run failed in the evaluation, after a model was trained, and the
\* files are those of the previous run.
C18_Witness ==
    /\ pc = "error"
    /\ model.fitted
    /\ ~eval_metrics.evaluated
    /\ store = PreviousBundle

(***************************************************************************)
(* Properties of the load for inference.                                   *)
(***************************************************************************)
\* C19: a load for inference yields the model, the scaler and the feature
\* list together, or reports that there is no bundle; it reports so whenever
\* one of the three files is absent.
C19_LoadAllOrNotFound ==
    [][loaded' # loaded =>
          IF \E f \in DOMAIN local_files : local_files[f] = Absent
          THEN loaded'.outcome = "not_found"
          ELSE loaded'.outcome = "loaded" /\ Len(loaded'.objects) = 3]_vars

\* C20: a load that follows a save that wrote all four files reads back the
\* model, the scaler and the feature list that were saved.
C20_SaveLoadRoundTrip ==
    [][(/\ pc = "saved"
        /\ \A f \in DOMAIN store : store[f].run = "current"
        /\ loaded' # loaded
        /\ loaded'.by = "prediction")
          => /\ loaded'.outcome = "loaded"
             /\ loaded'.objects = <<[run |-> "current", obj |-> model],
                                    [run |-> "current", obj |-> scaler],
                                    [run |-> "current", obj |-> FeatureColumns]>>]_vars

(***************************************************************************)
(* Properties of the cutoff: recency and the cutoff day.                   *)
(***************************************************************************)
\* The customer's latest purchase at or before the cutoff.
LastPurchase(c) ==
    MaxOf({df[i].order_purchase_timestamp : i \in {k \in 1..Len(df) :
        /\ df[k].customer_unique_id = c
        /\ df[k].order_purchase_timestamp <= cutoff_date}})

\* C30: in every row of calculate_churn_features recency is a whole number of
\* days, not negative, counted from the customer's latest purchase at or
\* before the cutoff, and 0 when that purchase is less than a day before the
\* cutoff.
C30_RecencyWholeDays ==
    pc \in {"features", "labels", "assembled"} =>
        \A i \in 1..Len(features_df) :
            LET r    == features_df[i].recency
                last == LastPurchase(features_df[i].customer_unique_id)
            IN  /\ r[2] = 1
                /\ r[1] >= 0
                /\ r[1] * HalfDaysPerDay <= cutoff_date - last
                /\ cutoff_date - last < (r[1] + 1) * HalfDaysPerDay
                /\ cutoff_date - last < HalfDaysPerDay => r[1] = 0

\* A customer who bought half a day before the cutoff and again after it has
\* recency 0.
C30_Witness ==
    /\ pc = "features"
    /\ \E i \in 1..Len(features_df) :
          /\ features_df[i].recency = Rat(0)
          /\ LastPurchase(features_df[i].customer_unique_id) = cutoff_date - 1
          /\ HasOrderAfter(features_df[i].customer_unique_id)

\* C26: a customer whose latest purchase is on the calendar day of the cutoff
\* is labelled churn = 1.
C26_CutoffDayStillChurn ==
    LabelsDone =>
        \A c \in Customers :
            LET times == {df[i].order_purchase_timestamp :
                            i \in {k \in 1..Len(df) :
                                     df[k].customer_unique_id = c}}
            IN  (/\ times # {}
                 /\ MaxOf(times) \div HalfDaysPerDay
                        = cutoff_date \div HalfDaysPerDay)
                    => \E i \in 1..Len(churn_df) :
                          /\ churn_df[i].customer_unique_id = c
                          /\ churn_df[i].churn = 1

(***************************************************************************)
(* Properties of the order of the stages.                                  *)
(***************************************************************************)
StageOrder ==
    <<"assembled", "analyzed", "split", "normalized", "rebalanced", "trained",
      "evaluated", "saved">>

\* C27: the stages of main run in the order assemble, split, scale,
\* rebalance, train, evaluate, save, and the test rows the evaluation gets are
\* the held-out rows of the split, scaled: rebalancing and training leave
\* them as they are, with any rebalance method.
C27_StageOrderTrainOnlyRebalance ==
    [][/\ pc' # pc =>
            \/ pc' = "error"
            \/ \E i \in 1..(Len(StageOrder) - 1) :
                    pc = StageOrder[i] /\ pc' = StageOrder[i + 1]
       /\ pc' = "split" => test' (+) train' = dataset
       /\ pc' = "normalized" =>
              /\ test_scaled' = Transform(scaler', FillNaZero(test))
              /\ \A c \in {0, 1} :
                    ClassCount(test_scaled', c) = ClassCount(test, c)
       /\ pc \in {"split", "normalized", "rebalanced", "trained", "evaluated"}
              => test' = test
       /\ pc \in {"normalized", "rebalanced", "trained", "evaluated"}
              => test_scaled' = test_scaled
       /\ pc' = "evaluated" =>
              \A c \in {0, 1} :
                 eval_metrics'.support[c] = ClassCount(test, c)]_vars

\* A run was evaluated after SMOTE had added rows to the training set.
C27_Witness ==
    /\ pc = "evaluated"
    /\ rebalance_method = "smote"
    /\ BagCardinality(train_scaled) > BagCardinality(train)
    /\ \A c \in {0, 1} : eval_metrics.support[c] = ClassCount(test, c)

\* C28: in the cross-validation mode without grid search the folds take
\* their labels by position and every fold completes, with every rebalance
\* method: on a training set that has the rows for the folds and for the
\* fits, train_model returns.
C28_FoldsCompleteByPosition ==
    [][(/\ pc = "rebalanced"
        /\ use_cv # 0
        /\ ~grid_search
        /\ model_type \in ModelTypes
        /\ ~KFoldFails(train_scaled, use_cv)
        /\ \A c \in {0, 1} : ClassCount(train_scaled, c) >= 2)
          => pc' = "trained"]_vars


\* C21: a remote fetch of the model ends with the fetched model or with a
\* connectivity error; it never keeps waiting for a silent server and
\* never hands the body of a failed response to the deserializer.
C21_RemoteFetchEndsOrReports ==
    [][(loaded = NotLoaded /\ loaded' # loaded
        /\ loaded'.by = "load_model_remote")
          => (/\ loaded'.outcome \in {"loaded", "connection_error"}
              /\ \A i \in 1..Len(loaded'.objects) :
                    loaded'.objects[i].run # "error_page")]_vars


\* C29: once the overlapping saves of two runs have both finished, the
\* stored model, scaler, feature list and report all come from one run.
C29_OverlappingSavesOneRun ==
    (writers \in [Runs -> 0..SaveSteps] /\ \A r \in Runs : SaveFinished(r))
        => \E r \in Runs : \A f \in DOMAIN store : store[f].run = r


HasNullRow(t) ==
    \E i \in 1..Len(t) : \/ t[i].customer_unique_id = NullId
                          \/ t[i].order_purchase_timestamp = NaT

\* C24: an order table with a row whose customer id or purchase timestamp
\* is missing is rejected before the Feature Builder or the Label Definer
\* runs on it.
C24_NullRowsRejected ==
    HasNullRow(df) => pc = "start"


\* The frames with the columns of a frame in another order.
Reorderings(frame) ==
    {[i \in 1..Len(frame) |-> frame[p[i]]] :
        p \in {q \in [1..Len(frame) -> 1..Len(frame)] :
                  \A i, j \in 1..Len(frame) : i # j => q[i] # q[j]}}

\* The frame with the persisted columns in the persisted order.
Canonical(frame) ==
    [i \in 1..Len(PersistedColumns) |->
        [name |-> PersistedColumns[i],
         value |-> FrameValue(frame, PersistedColumns[i])]]

\* C22: for an input row with every persisted feature name, the shown
\* probability is the one the scaler and the model give for the values in
\* the persisted column order, and every reordering of the row's columns
\* gets the same probability.
C22_FeatureOrderIndependent ==
    prediction.outcome = "ok" =>
        LET frame == input_df[1]
        IN  /\ prediction.probability =
                  PredictProba(PersistedModel,
                      ScalerTransform(PersistedScaler,
                          [i \in 1..MaxFeatures |-> Canonical(frame)[i].value]))
            /\ \A g \in Reorderings(frame) :
                  churn_probability(g, loaded.objects) = prediction

C22_Witness ==
    /\ prediction.outcome = "ok"
    /\ FrameColumns(input_df[1]) # PersistedColumns
    /\ \A i, j \in 1..Len(input_df[1]) :
          i # j => input_df[1][i].value # input_df[1][j].value

AbsentColumns(frame) == Range(PersistedColumns) \ Range(FrameColumns(frame))

\* C23: for an input row that lacks a persisted feature name, the tab
\* reports an error that names every absent column, shows no probability,
\* and the loaded model, scaler and feature list stay as they were.
C23_MissingFeatureReported ==
    (prediction.outcome # "none" /\ AbsentColumns(input_df[1]) # {}) =>
        /\ prediction.outcome = "error"
        /\ Range(prediction.missing) = AbsentColumns(input_df[1])
        /\ prediction.probability = NaN
        /\ loaded = PredictionBundle

C23_Witness ==
    /\ prediction.outcome = "error"
    /\ Cardinality(AbsentColumns(input_df[1])) >= 2
    /\ input_df[1] # <<>>


\* The sections of a report in the order in which they begin.
SectionsOf(report) ==
    SelectSeq(Unique(Column(report, "section")), LAMBDA s : s # "title")

Contiguous(report) ==
    \A i, k \in 1..Len(report) :
        (i < k /\ report[i].section = report[k].section)
            => \A j \in i..k : report[j].section = report[i].section

FixedSections ==
    <<"timestamp", "configuration", "distribution", "correlations",
      "metrics", "classification_report", "confusion_matrix">>

Found(text, report) == \E i \in 1..Len(report) : Matches(text, report[i])

WellFormedReport(report, with_importance) ==
    /\ Contiguous(report)
    /\ SectionsOf(report) =
          FixedSections \o (IF with_importance THEN <<"feature_importance">>
                            ELSE <<>>)
    /\ \A text \in DashboardMetricNames \cup DashboardLineTexts :
          Found(text, report)
    /\ \A text \in DashboardSectionHeaders :
          Found(text, report)
            <=> (text = "Importância das features" => with_importance)

\* C25: the report a run has written has its sections in the fixed order,
\* the feature importances last and only when the model has them, and
\* holds every text the dashboard looks for exactly as the dashboard
\* spells it; the same is true of the text the writer produces for
\* metrics that do carry feature importances.
C25_ReportSectionsAndPrefixes ==
    (pc = "saved" /\ store.results.run = "current") =>
        /\ WellFormedReport(store.results.obj,
                            eval_metrics.feature_importance = "ranking")
        /\ WellFormedReport(
              ResultsText(DistMetricsKeys,
                  [eval_metrics EXCEPT !.feature_importance = "ranking"]),
              TRUE)

C25_Witness ==
    /\ pc = "saved"
    /\ store.results.run = "current"
    /\ eval_metrics.evaluated
    /\ Found("F1 (weighted)", store.results.obj)

====
